---- MODULE Spec2Model ----
(***************************************************************************)
(* Model of src/models/pso.py: the particle swarm optimiser PSO.compute    *)
(* with its three concrete encodings PSO_POWER, PSO_GAUSS4 and PSO_GAUSS6  *)
(* and the abstract base class PSO.                                        *)
(*                                                                         *)
(* Numbers.  The program computes in float64.  The model computes in       *)
(* fixed point: a position, a velocity and a random draw are integers      *)
(* counting thousandths (-2.0 is -2000, 0.2 is 200, 0.730 is 730), a       *)
(* product of two such numbers is divided by 1000 and rounded down.  A     *)
(* score counts thousandths too, so the penalty 10**6 is 10^9.             *)
(*                                                                         *)
(* Arrays.  pos, vel and p_best_pos are numpy arrays of shape              *)
(* (parti_count, param_count): here functions from the particle index      *)
(* 0..parti_count-1 to a vector, a vector being a sequence whose element   *)
(* i+1 is the source's coordinate i.  Indexing a numpy array with one      *)
(* integer gives a VIEW of the row, not a copy, and assigning to a row     *)
(* copies the values into it.  So the locals a, va, p and g_best_pos of    *)
(* compute are views: the model keeps the row index they refer to and      *)
(* reads the row at the moment the code reads the view.                    *)
(*                                                                         *)
(* Shapes.  vel has param_count columns, pos and p_best_pos have as many   *)
(* as init_pos returns: param_count for PSO_POWER, 4 for PSO_GAUSS4, 6 for *)
(* PSO_GAUSS6, whatever param_count is.  numpy broadcasts a vector of      *)
(* length 1 against any other, raises ValueError on other unequal lengths, *)
(* and raises ValueError when a row is assigned a longer vector.           *)
(***************************************************************************)
EXTENDS Integers, Sequences, FiniteSets, TLC

VARIABLES
    pc,             \* position in compute: "start", "sweep", "done", "raised"
    enc,            \* the class compute is called on
    costKind,       \* which cost function stands behind evaluate
    parti_count,    \* self.parti_count
    param_count,    \* self.param_count, that is cfg.COMM.PARAM
    pos,            \* pos
    vel,            \* vel
    p_best_pos,     \* p_best_pos
    p_best_scores,  \* p_best_scores
    best_parti,     \* best_parti; g_best_pos is the view p_best_pos[best_parti]
    g_bound,        \* history: the contents of g_best_pos when it was last bound
    t,              \* outer loop variable
    n,              \* inner loop variable
    evals,          \* history: number of calls of evaluate so far
    cand,           \* history: a + va of the latest update_pos, before clamping
    raised          \* the exception compute ended with, or "none"

vars == <<pc, enc, costKind, parti_count, param_count, pos, vel, p_best_pos, p_best_scores,
          best_parti, g_bound, t, n, evals, cand, raised>>

----------------------------------------------------------------------------
(* Bounds of the model *)

\* self.loop, 200 in the program
loop == 3

\* the largest swarm; self.parti_count is 50 in the program
MaxParti == 2

----------------------------------------------------------------------------
(* Vectors *)

RECURSIVE SumSeq(_)
SumSeq(s) == IF s = <<>> THEN 0 ELSE Head(s) + SumSeq(Tail(s))

\* fixed-point product of two numbers in thousandths
FixMul(x, y) == (x * y) \div 1000

\* numpy broadcasting of two one-dimensional arrays
Broadcastable(x, y) == Len(x) = Len(y) \/ Len(x) = 1 \/ Len(y) = 1

\* row[...] = v succeeds
Storable(row, v) == Len(v) = Len(row) \/ Len(v) = 1

\* x + y and x - y, a vector of length 1 standing for as many copies of its
\* element as the other vector is long
VecAdd(x, y) ==
    LET xv == x
        yv == y
        lx == Len(xv)
        ly == Len(yv)
        l  == IF lx >= ly THEN lx ELSE ly
    IN  [i \in 1..l |-> (IF lx = 1 THEN xv[1] ELSE xv[i])
                        + (IF ly = 1 THEN yv[1] ELSE yv[i])]

VecSub(x, y) ==
    LET xv == x
        yv == y
        lx == Len(xv)
        ly == Len(yv)
        l  == IF lx >= ly THEN lx ELSE ly
    IN  [i \in 1..l |-> (IF lx = 1 THEN xv[1] ELSE xv[i])
                        - (IF ly = 1 THEN yv[1] ELSE yv[i])]
VecScale(k, x) == [i \in 1..Len(x) |-> FixMul(k, x[i])]

Zeros(d) == [i \in 1..d |-> 0]

Particles == 0..(parti_count - 1)

----------------------------------------------------------------------------
(* The cost function *)

\* The simulation behind evaluate (cycloid, RK4, torque) is outside this file.
\* It is a deterministic function of the parameter vector; the model has three:
\*   "square"   never out of range, the torque sum is the sum of squares
\*   "limited"  out of range when the first parameter exceeds 0.1
\*   "penalty"  out of range for every input
CostKinds == {"square", "limited", "penalty"}

\* np.abs(S[0 : 2 * Nrk + 1, 2]).max() >= 45
OutOfRange(a) ==
    \/ costKind = "penalty"
    \/ costKind = "limited" /\ a[1] > 100

\* sum(np.absolute(torque(S, X1, X2)))
TorqueSum(a) == SumSeq([i \in 1..Len(a) |-> FixMul(a[i], a[i])])

evaluate(a) == IF OutOfRange(a) THEN 1000000 * 1000 ELSE TorqueSum(a)

----------------------------------------------------------------------------
(* The encodings *)

Encodings == {"PSO", "PSO_POWER", "PSO_GAUSS4", "PSO_GAUSS6"}

a_min == -2000
a_max == 2000

Clip(x, lo, hi) == IF x > hi THEN hi ELSE IF x < lo THEN lo ELSE x

\* PSO_POWER.update_pos with the second np.where taking a + va, not the result
\* of the first, as its third argument: the clamp at a_min is lost
update_pos_POWER_SecondWhereFromSum(a, va) ==
    LET new_a  == VecAdd(a, va)
        new_a2 == [i \in 1..Len(new_a) |-> IF new_a[i] > a_max THEN a_max ELSE new_a[i]]
    IN  new_a2

\* PSO_POWER.update_pos
update_pos_POWER(a, va) ==
    LET new_a  == VecAdd(a, va)
        new_a1 == [i \in 1..Len(new_a) |-> IF new_a[i] < a_min THEN a_min ELSE new_a[i]]
        new_a2 == [i \in 1..Len(new_a) |-> IF new_a1[i] > a_max THEN a_max ELSE new_a1[i]]
    IN  new_a2

\* PSO_GAUSS4.update_pos
update_pos_GAUSS4(a, va) ==
    LET new_a == VecAdd(a, va)
        half  == Len(new_a) \div 2
    IN  [i \in 1..Len(new_a) |->
            IF i <= half THEN Clip(new_a[i], -200, 200)
                         ELSE Clip(new_a[i], 0, 1000)]

\* PSO_GAUSS6.update_pos
update_pos_GAUSS6(a, va) ==
    LET new_a == VecAdd(a, va)
    IN  [i \in 1..Len(new_a) |->
            IF i \in 1..2 THEN Clip(new_a[i], -200, 200)
            ELSE IF i \in 3..4 THEN Clip(new_a[i], 0, 1000)
            ELSE IF i = 5 THEN (IF new_a[5] > -500 THEN -500
                                ELSE IF new_a[5] < -2000 THEN -2000 ELSE new_a[5])
            ELSE IF i = 6 THEN (IF new_a[6] > 2000 THEN 2000
                                ELSE IF new_a[6] < 500 THEN 500 ELSE new_a[6])
            ELSE new_a[i]]

update_pos(a, va) ==
    CASE enc = "PSO_POWER"  -> update_pos_POWER(a, va)
      [] enc = "PSO_GAUSS4" -> update_pos_GAUSS4(a, va)
      [] enc = "PSO_GAUSS6" -> update_pos_GAUSS6(a, va)

\* Values of cfg.COMM.PARAM
ParamCounts == {1, 4, 6}

\* Values init_pos can return for one particle.
\* PSO_POWER: rand() * 4 - 2, param_count coordinates, each in [-2, 2); the
\* vectors here alternate in sign, one of them next to both bounds
InitVecs_POWER ==
    {[i \in 1..param_count |-> IF i % 2 = 1 THEN x ELSE -x] : x \in {1200, 1999}}

\* PSO_GAUSS4: [-0.2, 0.2) twice, then [0, 1) twice
InitVecs_GAUSS4 == {<<-200, 100, 0, 900>>, <<150, -50, 400, 100>>}

\* PSO_GAUSS6: as PSO_GAUSS4, then (-2.0, -0.5] and [0.5, 2.0)
InitVecs_GAUSS6 == {<<-200, 100, 0, 900, -500, 500>>,
                    <<150, -50, 400, 100, -1900, 1800>>}

InitVecs ==
    CASE enc = "PSO_POWER"  -> InitVecs_POWER
      [] enc = "PSO_GAUSS4" -> InitVecs_GAUSS4
      [] enc = "PSO_GAUSS6" -> InitVecs_GAUSS6
      [] OTHER              -> {}

\* Pairs <<ro1, ro2>> that the two calls of random.uniform(0, 1) return
Draws == {<<0, 500>>, <<500, 0>>, <<500, 500>>}

\* PSO.update_vel pulling towards g + a instead of g - a
update_vel_SignSlip(a, va, p, g, ro1, ro2) ==
    LET pull_p == VecScale(FixMul(2050, ro1), VecSub(p, a))
        pull_g == VecScale(FixMul(2050, ro2), VecAdd(g, a))
    IN  VecScale(730, VecAdd(VecAdd(va, pull_p), pull_g))

\* PSO.update_vel
update_vel(a, va, p, g, ro1, ro2) ==
    LET pull_p == VecScale(FixMul(2050, ro1), VecSub(p, a))
        pull_g == VecScale(FixMul(2050, ro2), VecSub(g, a))
    IN  VecScale(730, VecAdd(VecAdd(va, pull_p), pull_g))

\* an argmin that returns the last index holding the minimum
argmin_LastWins(scores) ==
    CHOOSE i \in DOMAIN scores :
        /\ \A j \in DOMAIN scores : scores[i] <= scores[j]
        /\ \A j \in DOMAIN scores : scores[j] = scores[i] => i >= j

\* np.argmin: the first index holding the minimum
argmin(scores) ==
    CHOOSE i \in DOMAIN scores :
        /\ \A j \in DOMAIN scores : scores[i] <= scores[j]
        /\ \A j \in DOMAIN scores : scores[j] = scores[i] => i <= j

\* the view g_best_pos
g_best_pos == p_best_pos[best_parti]

----------------------------------------------------------------------------
(* compute *)

Init ==
    /\ pc = "start"
    /\ enc \in Encodings
    /\ costKind \in CostKinds
    /\ parti_count \in 1..MaxParti
    /\ param_count \in ParamCounts
    /\ pos = <<>>
    /\ vel = <<>>
    /\ p_best_pos = <<>>
    /\ p_best_scores = <<>>
    /\ best_parti = -1
    /\ g_bound = <<>>
    /\ t = 0
    /\ n = 0
    /\ evals = 0
    /\ cand = <<>>
    /\ raised = "none"

\* lines 62-69 on a concrete class
Initialize ==
    /\ pc = "start"
    /\ enc # "PSO"
    /\ \E init \in [Particles -> InitVecs] :
         LET scores == [i \in Particles |-> evaluate(init[i])]
             bp     == argmin(scores)
         IN  /\ pos' = init
             /\ vel' = [i \in Particles |-> Zeros(param_count)]
             /\ p_best_pos' = init
             /\ p_best_scores' = scores
             /\ best_parti' = bp
             /\ g_bound' = init[bp]
    /\ evals' = evals + parti_count
    /\ pc' = "sweep"
    /\ UNCHANGED <<enc, costKind, parti_count, param_count, t, n, cand, raised>>

\* compute on the base class with line 63 moved before line 62: vel exists
\* when init_pos raises
InitializeRaises_VelFirst ==
    /\ pc = "start"
    /\ enc = "PSO"
    /\ vel' = [i \in Particles |-> Zeros(1)]
    /\ raised' = "NotImplementedError"
    /\ pc' = "raised"
    /\ UNCHANGED <<enc, costKind, parti_count, param_count, pos, p_best_pos,
                   p_best_scores, best_parti, g_bound, t, n, evals, cand>>

\* line 62 on the base class: init_pos raises
InitializeRaises ==
    /\ pc = "start"
    /\ enc = "PSO"
    /\ raised' = "NotImplementedError"
    /\ pc' = "raised"
    /\ UNCHANGED <<enc, costKind, parti_count, param_count, pos, vel, p_best_pos,
                   p_best_scores, best_parti, g_bound, t, n, evals, cand>>

\* The body of the inner loop with one slip:
\*   "copy"     a is a copy of pos[n], so update_vel reads the old position
\*   "always"   the personal best is replaced whatever the score
\*   "alias"    p_best_pos[n] follows pos[n] (no deepcopy), the score does not
\*   "nonstrict" the personal best is replaced when score <= p_best_scores[n]
StepVariant(ro1, ro2, slip) ==
    LET va     == vel[n]
        p      == p_best_pos[n]
        new_a  == update_pos(pos[n], va)
        pos1   == [pos EXCEPT ![n] = new_a]
        a      == IF slip = "copy" THEN pos[n] ELSE pos1[n]
        new_va == update_vel(a, va, p, g_best_pos, ro1, ro2)
        score  == evaluate(new_a)
        better == CASE slip = "always"    -> TRUE
                    [] slip = "nonstrict" -> score <= p_best_scores[n]
                    [] OTHER              -> score < p_best_scores[n]
    IN  [pos    |-> pos1,
         vel    |-> [vel EXCEPT ![n] = new_va],
         scores |-> IF better THEN [p_best_scores EXCEPT ![n] = score]
                              ELSE p_best_scores,
         bests  |-> IF better \/ slip = "alias"
                    THEN [p_best_pos EXCEPT ![n] = new_a]
                    ELSE p_best_pos]

StepResult_VelFromOldPos(ro1, ro2) == StepVariant(ro1, ro2, "copy")
StepResult_AlwaysReplace(ro1, ro2) == StepVariant(ro1, ro2, "always")
StepResult_BestAliasesPos(ro1, ro2) == StepVariant(ro1, ro2, "alias")
StepResult_NonStrict(ro1, ro2) == StepVariant(ro1, ro2, "nonstrict")

\* lines 75-91: the body of the inner loop for particle n
StepResult(ro1, ro2) ==
    LET va     == vel[n]
        p      == p_best_pos[n]
        new_a  == update_pos(pos[n], va)
        pos1   == [pos EXCEPT ![n] = new_a]
        \* a is a view of pos[n]: it holds new_a by now
        new_va == update_vel(pos1[n], va, p, g_best_pos, ro1, ro2)
        score  == evaluate(new_a)
        better == score < p_best_scores[n]
    IN  [pos    |-> pos1,
         vel    |-> [vel EXCEPT ![n] = new_va],
         scores |-> IF better THEN [p_best_scores EXCEPT ![n] = score]
                              ELSE p_best_scores,
         bests  |-> IF better THEN [p_best_pos EXCEPT ![n] = new_a]
                              ELSE p_best_pos]

\* lines 72-73: both loops have an iteration left
InnerLoopRuns == pc = "sweep" /\ t < loop /\ n < parti_count

\* line 73: range(self.parti_count) is exhausted
InnerLoopOver == pc = "sweep" /\ t < loop /\ n = parti_count

\* line 72: range(self.loop) is exhausted
OuterLoopOver == pc = "sweep" /\ t = loop

\* line 85: the new velocity fits the row vel[n]; it has the shape of
\* va + (p - a), whatever the draws
VelStorable == Storable(vel[n], VecAdd(vel[n], VecSub(p_best_pos[n], pos[n])))

Step ==
    /\ InnerLoopRuns
    /\ Broadcastable(pos[n], vel[n])
    /\ VelStorable
    /\ \E d \in Draws :
         LET r == StepResult(d[1], d[2])
         IN  /\ pos' = r.pos
             /\ vel' = r.vel
             /\ p_best_scores' = r.scores
             /\ p_best_pos' = r.bests
    /\ cand' = VecAdd(pos[n], vel[n])
    /\ evals' = evals + 1
    /\ n' = n + 1
    /\ UNCHANGED <<pc, enc, costKind, parti_count, param_count, best_parti, g_bound, t, raised>>

\* lines 75-80: a + va in update_pos raises, pos[n] and vel[n] having lengths
\* that do not broadcast
StepRaisesInUpdatePos ==
    /\ InnerLoopRuns
    /\ ~Broadcastable(pos[n], vel[n])
    /\ raised' = "ValueError"
    /\ pc' = "raised"
    /\ UNCHANGED <<enc, costKind, parti_count, param_count, pos, vel, p_best_pos,
                   p_best_scores, best_parti, g_bound, t, n, evals, cand>>

\* lines 75-85: pos[n] is written, then vel[n] = new_va raises, new_va being
\* longer than the row; evaluate is not reached
StepRaisesOnVelStore ==
    /\ InnerLoopRuns
    /\ Broadcastable(pos[n], vel[n])
    /\ ~VelStorable
    /\ pos' = [pos EXCEPT ![n] = update_pos(pos[n], vel[n])]
    /\ cand' = VecAdd(pos[n], vel[n])
    /\ raised' = "ValueError"
    /\ pc' = "raised"
    /\ UNCHANGED <<enc, costKind, parti_count, param_count, vel, p_best_pos,
                   p_best_scores, best_parti, g_bound, t, n, evals>>

\* lines 94-95: the end of one sweep
EndSweep ==
    /\ InnerLoopOver
    /\ best_parti' = argmin(p_best_scores)
    /\ g_bound' = p_best_pos[argmin(p_best_scores)]
    /\ t' = t + 1
    /\ n' = 0
    /\ UNCHANGED <<pc, enc, costKind, parti_count, param_count, pos, vel, p_best_pos,
                   p_best_scores, evals, cand, raised>>

\* lines 100-103
Return ==
    /\ OuterLoopOver
    /\ pc' = "done"
    /\ UNCHANGED <<enc, costKind, parti_count, param_count, pos, vel, p_best_pos,
                   p_best_scores, best_parti, g_bound, t, n, evals, cand, raised>>

Next ==
    \/ Initialize
    \/ InitializeRaises
    \/ Step
    \/ StepRaisesInUpdatePos
    \/ StepRaisesOnVelStore
    \/ EndSweep
    \/ Return

Spec == Init /\ [][Next]_vars

----------------------------------------------------------------------------
(* Properties *)

Started == pc \in {"sweep", "done"}

\* initialisation is over, whatever happened since
SwarmExists == pos # <<>>

\* a step of the inner loop is being taken, for particle n
IsStep == pc = "sweep" /\ n' = n + 1

\* C1 as stated: each step stores new_v = w*(va + c*r1*(p - a) + c*r2*(g - a)),
\* computed from the position a before the step, as the velocity and
\* clamp(a + new_v) as the position.
C1_ReferenceStep ==
    [][IsStep =>
        \E d \in Draws :
          LET new_v == update_vel(pos[n], vel[n], p_best_pos[n], g_best_pos, d[1], d[2])
          IN  /\ vel'[n] = new_v
              /\ pos'[n] = update_pos(pos[n], new_v)]_vars

\* C1 amended: each step that runs to its end stores clamp(a + va) as the
\* position, va being the velocity before the step, and stores as the velocity
\* w*(va + c*r1*(p - new_a) + c*r2*(g - new_a)), computed from the position
\* just stored, with p and g as they are before the step.  A step that ends
\* with ValueError stores no velocity, and either no position or clamp(a + va).
C1_PositionFirst ==
    /\ [][IsStep =>
            /\ pos'[n] = update_pos(pos[n], vel[n])
            /\ \E d \in Draws :
                 vel'[n] = update_vel(pos'[n], vel[n], p_best_pos[n], g_best_pos,
                                      d[1], d[2])]_vars
    /\ [][(pc = "sweep" /\ pc' = "raised") =>
            /\ vel' = vel
            /\ \/ pos' = pos
               \/ pos' = [pos EXCEPT ![n] = update_pos(pos[n], vel[n])]]_vars

\* the latest step has moved a particle to a + va unclamped, away from its
\* personal best, and has left it a non-zero velocity
C1_Witness ==
    /\ pc = "sweep"
    /\ n >= 1
    /\ cand # <<>>
    /\ pos[n - 1] = cand
    /\ vel[n - 1] # Zeros(Len(cand))
    /\ p_best_pos[n - 1] # pos[n - 1]

\* C2 as stated: the global best that the next velocity update reads is the one
\* bound at the end of the previous sweep (or at initialisation).
C2_GlobalBestFixedInSweep == InnerLoopRuns => g_best_pos = g_bound

\* one particle, one coordinate, bounds [-2, 2], f(x) = x^2
Scenario1D ==
    enc = "PSO_POWER" /\ parti_count = 1 /\ param_count = 1 /\ costKind = "square"

\* C3 as stated: with one particle, one coordinate, PSO_POWER and f(x) = x^2 the
\* returned global best x has |x| < 0.01.
C3_Converges ==
    (Scenario1D /\ pc = "done") => (-10 < g_best_pos[1] /\ g_best_pos[1] < 10)

\* C3 amended: in that scenario the particle never moves: its velocity stays
\* zero and its position, its personal best and the global best stay the
\* initial position, which is what compute returns (so |x| < 0.01 only when the
\* initial position has it).
C3_StaysAtStart ==
    /\ []((Scenario1D /\ Started) =>
            /\ vel[0] = Zeros(Len(pos[0]))
            /\ p_best_pos[0] = pos[0]
            /\ g_best_pos = pos[0]
            /\ p_best_scores[0] = evaluate(pos[0]))
    /\ [][(Scenario1D /\ Started) => pos' = pos]_vars

\* a run of the scenario from x = 1.2 has returned
C3_Witness ==
    /\ Scenario1D
    /\ pc = "done"
    /\ t = loop
    /\ g_best_pos = <<1200>>

\* the bounds of an encoding
InBounds(x) ==
    CASE enc = "PSO_POWER"  -> \A i \in 1..Len(x) : a_min <= x[i] /\ x[i] <= a_max
      [] enc = "PSO_GAUSS4" -> /\ \A i \in 1..2 : -200 <= x[i] /\ x[i] <= 200
                               /\ \A i \in 3..4 : 0 <= x[i] /\ x[i] <= 1000
      [] enc = "PSO_GAUSS6" -> /\ \A i \in 1..2 : -200 <= x[i] /\ x[i] <= 200
                               /\ \A i \in 3..4 : 0 <= x[i] /\ x[i] <= 1000
                               /\ -2000 <= x[5] /\ x[5] <= -500
                               /\ 500 <= x[6] /\ x[6] <= 2000

\* C4: every position of every particle, from initialisation on, lies inside
\* the bounds of the encoding in use, also when a + va does not.
C4_Bounds == SwarmExists => \A i \in Particles : InBounds(pos[i])

\* the latest step had a + va outside the bounds and stored another vector
Clamped ==
    /\ pc = "sweep"
    /\ n >= 1
    /\ cand # <<>>
    /\ ~InBounds(cand)
    /\ pos[n - 1] # cand
    /\ InBounds(pos[n - 1])

\* the latest step of a PSO_POWER run had a + va above a_max in one coordinate
\* and below a_min in another, and stored a_max and a_min there
C4_Witness ==
    /\ Clamped
    /\ enc = "PSO_POWER"
    /\ \E i, j \in 1..Len(cand) :
          /\ cand[i] > a_max /\ pos[n - 1][i] = a_max
          /\ cand[j] < a_min /\ pos[n - 1][j] = a_min

\* the latest step of a PSO_GAUSS4 run had a + va outside the bounds in its
\* first half and in its second, and stored the bounds there
C4_ClampedGAUSS4 ==
    /\ Clamped
    /\ enc = "PSO_GAUSS4"
    /\ \E i \in 1..2 : cand[i] < -200 \/ cand[i] > 200
    /\ \E i \in 3..4 : cand[i] < 0 \/ cand[i] > 1000

\* the latest step of a PSO_GAUSS6 run had a + va outside the bounds in its
\* coordinates 4 and 5 and stored the bounds there
C4_ClampedGAUSS6 ==
    /\ Clamped
    /\ enc = "PSO_GAUSS6"
    /\ (cand[5] < -2000 \/ cand[5] > -500)
    /\ (cand[6] < 500 \/ cand[6] > 2000)

\* np.min(p_best_scores), the global best score
GlobalBestScore == p_best_scores[argmin(p_best_scores)]

\* C5: the global best score never increases, from any step to the next and so
\* from the end of one sweep to the end of the next.
C5_Monotonic == [][pc = "sweep" => GlobalBestScore' <= GlobalBestScore]_vars

\* the global best score is below the score of the global best bound at the end
\* of the previous sweep
C5_Witness ==
    /\ pc = "sweep"
    /\ t >= 1
    /\ GlobalBestScore < evaluate(g_bound)

\* C6: the stored personal-best score of every particle is the cost of its
\* stored personal-best position, whatever was written to pos and vel since.
C6_PersonalBest ==
    SwarmExists => \A i \in Particles : p_best_scores[i] = evaluate(p_best_pos[i])

\* a particle whose personal best was replaced and whose position has moved on
\* to a worse place since
C6_Witness ==
    /\ pc = "sweep"
    /\ \E i \in Particles :
         /\ p_best_pos[i] \notin InitVecs
         /\ pos[i] # p_best_pos[i]
         /\ evaluate(pos[i]) > p_best_scores[i]

\* g_best_pos has just been bound, or is being returned
AtSweepEnd == (pc = "sweep" /\ n = 0) \/ pc = "done"

\* C7: at initialisation, at the end of every sweep and at the return the
\* global best is the personal best of the lowest-index particle among those
\* with the minimum personal-best score.
C7_GlobalBestSelection ==
    AtSweepEnd =>
        \E i \in Particles :
            /\ \A j \in Particles : p_best_scores[i] <= p_best_scores[j]
            /\ \A j \in Particles : p_best_scores[j] = p_best_scores[i] => i <= j
            /\ best_parti = i
            /\ g_best_pos = p_best_pos[i]
            /\ g_bound = p_best_pos[i]

\* a sweep has ended with two particles sharing the minimum score
C7_Witness ==
    /\ pc = "sweep"
    /\ n = 0
    /\ t >= 1
    /\ parti_count >= 2
    /\ p_best_scores[0] = p_best_scores[1]
    /\ p_best_pos[0] # p_best_pos[1]
    /\ best_parti = 0

\* C8 as stated: a run on a concrete class ends after exactly loop sweeps and
\* not with an exception, having called evaluate parti_count times at
\* initialisation and once per particle per sweep, the particles taken in the
\* order 0..parti_count-1.
C8_FixedBudget ==
    enc # "PSO" =>
        /\ pc # "raised"
        /\ pc = "sweep" =>
              /\ t <= loop /\ n <= parti_count
              /\ evals = parti_count * (t + 1) + n
        /\ pc = "done" => t = loop /\ evals = parti_count * (loop + 1)

\* C9: compute on the base class ends with NotImplementedError, with no call of
\* evaluate and with no velocities, personal bests or global best created.
C9_BaseFailsFast ==
    enc = "PSO" =>
        /\ pc \in {"start", "raised"}
        /\ pc = "start" => ENABLED InitializeRaises
        /\ pc = "raised" <=> raised = "NotImplementedError"
        /\ evals = 0
        /\ pos = <<>> /\ vel = <<>>
        /\ p_best_pos = <<>> /\ p_best_scores = <<>>
        /\ best_parti = -1 /\ g_bound = <<>>

C9_Witness == enc = "PSO" /\ pc = "raised" /\ raised = "NotImplementedError"

\* the personal best of particle i is written in this step
BestChanged(i) ==
    p_best_pos'[i] # p_best_pos[i] \/ p_best_scores'[i] # p_best_scores[i]

\* C10: a step replaces the personal best of particle n, position and score
\* together, exactly when the new score is strictly below the stored one, and
\* nothing else ever changes a personal best; with the cost that is the same
\* for every input no personal best and no global best ever changes.
C10_StrictUpdate ==
    [][pc = "sweep" =>
        /\ \A i \in Particles :
             /\ BestChanged(i) <=>
                    (IsStep /\ i = n /\ evaluate(pos'[i]) < p_best_scores[i])
             /\ BestChanged(i) =>
                    /\ p_best_pos'[i] = pos'[i]
                    /\ p_best_scores'[i] = evaluate(pos'[i])
        /\ costKind = "penalty" =>
             /\ UNCHANGED <<p_best_pos, p_best_scores, best_parti>>
             /\ g_best_pos' = g_best_pos]_vars

\* a run with the constant cost has ended with a particle away from its
\* personal best, which is still its initial position
C10_Witness ==
    /\ pc = "done"
    /\ costKind = "penalty"
    /\ \E i \in Particles :
         /\ pos[i] # p_best_pos[i]
         /\ p_best_pos[i] \in InitVecs
         /\ evaluate(pos[i]) = p_best_scores[i]

====
